---- MODULE Spec2Model ----
(***************************************************************************)
(* A model of go-issue-summoner's scanning core:                           *)
(*   - tag.Walk, the directory walker (pkg/tag/walk.go), driven by the     *)
(*     fs.WalkDirFunc contract of Go's filepath.WalkDir;                   *)
(*   - issue.Comment, the comment classifier and content extractor         *)
(*     (pkg/issue/comment.go).                                             *)
(* Go strings are modelled as sequences of one-character strings, so that  *)
(* HasPrefix, HasSuffix, Contains, Fields and Join are computed on the     *)
(* characters as the Go library computes them.                             *)
(***************************************************************************)
EXTENDS Integers, Sequences, FiniteSets, TLC

\* ------------------------------------------------------------------ bounds
\* longest ignore-pattern list handed to Walk
MaxPatterns == 2
\* most Tags one ScanForTags call returns
MaxTagsPerFile == 2
\* most fields of a generated line
MaxFields == 2

\* ------------------------------------------------------- string primitives
\* strings.HasPrefix
HasPrefix(s, p) ==
    /\ Len(p) <= Len(s)
    /\ SubSeq(s, 1, Len(p)) = p

\* strings.HasSuffix
HasSuffix(s, p) ==
    /\ Len(p) <= Len(s)
    /\ SubSeq(s, Len(s) - Len(p) + 1, Len(s)) = p

\* strings.Contains
Contains(s, sub) ==
    \E i \in 0..Len(s) :
        /\ i + Len(sub) <= Len(s)
        /\ SubSeq(s, i + 1, i + Len(sub)) = sub

\* ------------------------------------------------------------ the file tree
\* The tree handed to WalkDir.  Children are in ReadDir's order (sorted by
\* file name).
\*    1 project/
\*    2   .git/               3  .git/config
\*    4   .github/            5  .github/ci.yml
\*    6   a.go
\*    7   debug.log
\*    8   node_modules/       9  node_modules/index.js
\*   10   src/               11  src/main.go
Nodes == 1..11
Root == 1

IsDir == [n \in Nodes |-> n \in {1, 2, 4, 8, 10}]

Children ==
    [n \in Nodes |->
        CASE n = 1 -> <<2, 4, 6, 7, 8, 10>>
          [] n = 2 -> <<3>>
          [] n = 4 -> <<5>>
          [] n = 8 -> <<9>>
          [] n = 10 -> <<11>>
          [] OTHER -> <<>>]

Parent ==
    [n \in Nodes |->
        CASE n \in {2, 4, 6, 7, 8, 10} -> 1
          [] n = 3 -> 2
          [] n = 5 -> 4
          [] n = 9 -> 8
          [] n = 11 -> 10
          [] OTHER -> 0]

\* d.Name(): the base name of the entry
Name ==
    [n \in Nodes |->
        CASE n = 1 -> <<"p","r","o","j","e","c","t">>
          [] n = 2 -> <<".","g","i","t">>
          [] n = 3 -> <<"c","o","n","f","i","g">>
          [] n = 4 -> <<".","g","i","t","h","u","b">>
          [] n = 5 -> <<"c","i",".","y","m","l">>
          [] n = 6 -> <<"a",".","g","o">>
          [] n = 7 -> <<"d","e","b","u","g",".","l","o","g">>
          [] n = 8 -> <<"n","o","d","e","_","m","o","d","u","l","e","s">>
          [] n = 9 -> <<"i","n","d","e","x",".","j","s">>
          [] n = 10 -> <<"s","r","c">>
          [] OTHER -> <<"m","a","i","n",".","g","o">>]

\* the path WalkDir hands to the visitor
Path ==
    [n \in Nodes |->
        CASE n = 1 -> "project"
          [] n = 2 -> "project/.git"
          [] n = 3 -> "project/.git/config"
          [] n = 4 -> "project/.github"
          [] n = 5 -> "project/.github/ci.yml"
          [] n = 6 -> "project/a.go"
          [] n = 7 -> "project/debug.log"
          [] n = 8 -> "project/node_modules"
          [] n = 9 -> "project/node_modules/index.js"
          [] n = 10 -> "project/src"
          [] OTHER -> "project/src/main.go"]

GitDirName == <<".","g","i","t">>

\* the proper ancestors of a node
RECURSIVE Ancestors(_)
Ancestors(n) ==
    IF Parent[n] = 0 THEN {} ELSE {Parent[n]} \cup Ancestors(Parent[n])

\* --------------------------------------------------------- ignore patterns
\* The compiled patterns Walk may be given, by their raw text.
PatternPool == {"node_modules/", "*.log", "src/main.go"}

\* GitIgnorePattern.Match: the paths each compiled pattern matches.  A
\* directory-only pattern matches the directory, not the paths below it.
Match(v, path) ==
    CASE v = "node_modules/" -> path = "project/node_modules"
      [] v = "*.log"         -> path = "project/debug.log"
      [] v = "src/main.go"   -> path = "project/src/main.go"
      [] OTHER               -> FALSE

\* The loop of validatePath from pattern i on: the first pattern that matches
\* ends it with false.
RECURSIVE ValidateLoop(_, _, _)
ValidateLoop(path, pats, i) ==
    IF i > Len(pats)
    THEN TRUE
    ELSE IF Match(pats[i], path)
    THEN FALSE
    ELSE ValidateLoop(path, pats, i + 1)

\* A validatePath that returns from the first iteration of its loop.
validatePathFirstOnly(path, pats) ==
    IF Len(pats) = 0 THEN TRUE ELSE ~Match(pats[1], path)

validatePath(path, pats) == ValidateLoop(path, pats, 1)

PatternLists ==
    UNION {[1..k -> PatternPool] : k \in 0..MaxPatterns}

\* ---------------------------------------------------------------- errors
NoErr == "nil"
SkipDir == "SkipDir"
ErrOpen == "ErrOpen"
ErrInfo == "ErrInfo"
ErrScan == "ErrScan"
ErrClose == "ErrClose"
ErrReadDir == "ErrReadDir"

\* What the collaborators do for one file: the results of Open, d.Info,
\* ScanForTags and Close.  A later call is only made when the earlier ones
\* succeeded, so one failing call is named.
FileOutcomes == {"ok", "open", "info", "scan", "close"}

\* the Tags ScanForTags finds in file n, k of them
FoundTags(n, k) == [i \in 1..k |-> [file |-> Path[n], idx |-> i]]

VARIABLES
    \* ---- tag.Walk
    pc,             \* "start", "walking", "listing", "done", "panicked"
    ignorePatterns, \* arg.IgnorePatterns
    todo,           \* entries WalkDir has still to hand to the visitor
    cur,            \* directory whose listing WalkDir is reading (0: none)
    tags,           \* the local tags of Walk
    err,            \* the error the visitor returned to WalkDir
    ret,            \* what Walk returned: [tags, err]
    visited,        \* history: visitor calls, [node, wErr]
    opened,         \* history: nodes FileOperator.Open was called on
    openFiles,      \* files opened and not closed
    scanned,        \* history: [node, found] of the ScanForTags calls that succeeded
    failed,         \* history: [node, err] of the collaborator calls that failed
    \* ---- issue.Comment
    c,              \* the Comment: syntax fields, CurrentPrefix, CurrentLineType
    op,             \* the last method called on c
    arg,            \* the line that call handed to SetLineTypeAndPrefix
    annotation,     \* the annotation token of the last ExtractCommentContent
    content,        \* its first result
    found,          \* its second result
    repeat,         \* history: the call before this one classified the same line
    block           \* history: start delimiter of the block opened and not yet
                    \* closed by a line showing its end delimiter (<<>>: none)

walkVars == <<pc, ignorePatterns, todo, cur, tags, err, ret, visited, opened,
              openFiles, scanned, failed>>
commentVars == <<c, op, arg, annotation, content, found, repeat, block>>

\* One source file read line by line: its extension, and what the call before
\* the current one was given and answered (history).
VARIABLES fileExt, last
fileVars == <<fileExt, last>>

\* One lexer.Comment record, and what Validate last answered for it.
VARIABLES comment, valid
recordVars == <<comment, valid>>

\* The multiselect program: the bubbletea model, the Selection it reports
\* into, the exit flag, and whether the program runs, quit or panicked.
VARIABLES m, choices, exit, program
selectVars == <<m, choices, exit, program>>

\* The token store: the configuration file config.json, the last WriteToken
\* that succeeded (history), and the last call with what it returned.
VARIABLES configFile, written, call
tokenVars == <<configFile, written, call>>

vars == <<walkVars, commentVars, fileVars, recordVars, selectVars, tokenVars>>
notWalkVars == <<commentVars, fileVars, recordVars, selectVars, tokenVars>>
notCommentVars == <<walkVars, fileVars, recordVars, selectVars, tokenVars>>

\* no configuration file
NoFile == [exists |-> FALSE, data |-> <<>>]

\* no call was made yet
NoTokenCall ==
    [op |-> "none", scm |-> <<>>, token |-> <<>>, authorized |-> FALSE,
     err |-> "nil"]

\* the token variables while the token store is not used
TokenIdle ==
    /\ configFile = NoFile
    /\ written = [done |-> FALSE, token |-> <<>>, scm |-> <<>>]
    /\ call = NoTokenCall

\* the call record of a file no line of which was read yet
NoCall ==
    [op |-> "none", arg |-> <<>>, type |-> "", prefix |-> <<>>,
     content |-> <<>>, found |-> FALSE]

\* the file variables while no file is read
FileIdle ==
    /\ fileExt = ""
    /\ last = NoCall

\* the record variables while no lexer.Comment is used
RecordIdle ==
    /\ comment = [Title |-> <<>>, Description |-> <<>>, TokenIndex |-> 0,
                  Source |-> <<>>, SourceFileName |-> ""]
    /\ valid = "none"

\* the multiselect variables while no program runs
SelectIdle ==
    /\ m = [cursor |-> 0, options |-> <<>>, selected |-> {}]
    /\ choices = <<>>
    /\ exit = FALSE
    /\ program = "idle"


\* ------------------------------------------------------------- tag.Walk
\* A visitor that skips the entry of a pruned directory without returning
\* SkipDir.
VisitorNoPrune(n, wErr, pats, tgs, o, k) ==
    LET isValidPath == validatePath(Path[n], pats)
        none == [ret |-> NoErr, tags |-> tgs, open |-> FALSE, leak |-> FALSE,
                 scan |-> FALSE, fail |-> NoErr]
    IN  IF IsDir[n] \/ ~isValidPath
        THEN none
        ELSE IF o = "open"
        THEN [none EXCEPT !.ret = ErrOpen, !.open = TRUE, !.fail = ErrOpen]
        ELSE IF o = "info"
        THEN [none EXCEPT !.ret = ErrInfo, !.open = TRUE, !.leak = TRUE,
                          !.fail = ErrInfo]
        ELSE IF o = "scan"
        THEN [none EXCEPT !.ret = ErrScan, !.open = TRUE, !.leak = TRUE,
                          !.fail = ErrScan]
        ELSE IF o = "close"
        THEN [none EXCEPT !.ret = ErrClose, !.open = TRUE, !.scan = TRUE,
                          !.tags = tgs \o FoundTags(n, k), !.fail = ErrClose]
        ELSE [none EXCEPT !.ret = wErr, !.open = TRUE, !.scan = TRUE,
                          !.tags = tgs \o FoundTags(n, k)]

\* A visitor that skips a file it cannot open instead of returning the error.
VisitorSkipUnreadable(n, wErr, pats, tgs, o, k) ==
    LET isValidPath == validatePath(Path[n], pats)
        isGitDir == Contains(Name[n], GitDirName)
        none == [ret |-> NoErr, tags |-> tgs, open |-> FALSE, leak |-> FALSE,
                 scan |-> FALSE, fail |-> NoErr]
    IN  IF IsDir[n]
        THEN IF isGitDir \/ ~isValidPath
             THEN [none EXCEPT !.ret = SkipDir]
             ELSE none
        ELSE IF ~isValidPath
        THEN none
        ELSE IF o = "open"
        THEN [none EXCEPT !.ret = NoErr, !.open = TRUE, !.fail = ErrOpen]
        ELSE IF o = "info"
        THEN [none EXCEPT !.ret = ErrInfo, !.open = TRUE, !.leak = TRUE,
                          !.fail = ErrInfo]
        ELSE IF o = "scan"
        THEN [none EXCEPT !.ret = ErrScan, !.open = TRUE, !.leak = TRUE,
                          !.fail = ErrScan]
        ELSE IF o = "close"
        THEN [none EXCEPT !.ret = ErrClose, !.open = TRUE, !.scan = TRUE,
                          !.tags = tgs \o FoundTags(n, k), !.fail = ErrClose]
        ELSE [none EXCEPT !.ret = wErr, !.open = TRUE, !.scan = TRUE,
                          !.tags = tgs \o FoundTags(n, k)]

\* A Walk that returns no Tags next to an error.
WalkResultDiscard(tgs, e) ==
    [tags |-> IF e = NoErr THEN tgs ELSE <<>>, err |-> e]

\* A visitor that puts the Tags of a file in front of those found so far.
VisitorPrepend(n, wErr, pats, tgs, o, k) ==
    LET isValidPath == validatePath(Path[n], pats)
        isGitDir == Contains(Name[n], GitDirName)
        none == [ret |-> NoErr, tags |-> tgs, open |-> FALSE, leak |-> FALSE,
                 scan |-> FALSE, fail |-> NoErr]
    IN  IF IsDir[n]
        THEN IF isGitDir \/ ~isValidPath
             THEN [none EXCEPT !.ret = SkipDir]
             ELSE none
        ELSE IF ~isValidPath
        THEN none
        ELSE IF o = "open"
        THEN [none EXCEPT !.ret = ErrOpen, !.open = TRUE, !.fail = ErrOpen]
        ELSE IF o = "info"
        THEN [none EXCEPT !.ret = ErrInfo, !.open = TRUE, !.leak = TRUE,
                          !.fail = ErrInfo]
        ELSE IF o = "scan"
        THEN [none EXCEPT !.ret = ErrScan, !.open = TRUE, !.leak = TRUE,
                          !.fail = ErrScan]
        ELSE IF o = "close"
        THEN [none EXCEPT !.ret = ErrClose, !.open = TRUE, !.scan = TRUE,
                          !.tags = FoundTags(n, k) \o tgs, !.fail = ErrClose]
        ELSE [none EXCEPT !.ret = wErr, !.open = TRUE, !.scan = TRUE,
                          !.tags = FoundTags(n, k) \o tgs]

\* The visitor closure Walk hands to WalkDir, for entry n called with wErr,
\* when the collaborators behave as outcome o and ScanForTags finds k Tags.
\* The result names what the closure returns, the tags it leaves, and what it
\* did to the file: whether Open was called, whether the handle is left open,
\* whether ScanForTags succeeded, and the collaborator error it met.
Visitor(n, wErr, pats, tgs, o, k) ==
    LET isValidPath == validatePath(Path[n], pats)
        isGitDir == Contains(Name[n], GitDirName)
        none == [ret |-> NoErr, tags |-> tgs, open |-> FALSE, leak |-> FALSE,
                 scan |-> FALSE, fail |-> NoErr]
    IN  IF IsDir[n]
        THEN IF isGitDir \/ ~isValidPath
             THEN [none EXCEPT !.ret = SkipDir]
             ELSE none
        ELSE IF ~isValidPath
        THEN none
        ELSE IF o = "open"
        THEN [none EXCEPT !.ret = ErrOpen, !.open = TRUE, !.fail = ErrOpen]
        ELSE IF o = "info"
        THEN [none EXCEPT !.ret = ErrInfo, !.open = TRUE, !.leak = TRUE,
                          !.fail = ErrInfo]
        ELSE IF o = "scan"
        THEN [none EXCEPT !.ret = ErrScan, !.open = TRUE, !.leak = TRUE,
                          !.fail = ErrScan]
        ELSE IF o = "close"
        THEN [none EXCEPT !.ret = ErrClose, !.open = TRUE, !.scan = TRUE,
                          !.tags = tgs \o FoundTags(n, k), !.fail = ErrClose]
        ELSE [none EXCEPT !.ret = wErr, !.open = TRUE, !.scan = TRUE,
                          !.tags = tgs \o FoundTags(n, k)]

\* return tags, err
WalkResult(tgs, e) == [tags |-> tgs, err |-> e]

\* The bookkeeping of one visitor call on entry n that returned r.
Record(n, wErr, r) ==
    /\ visited' = Append(visited, [node |-> n, wErr |-> wErr])
    /\ opened' = IF r.open THEN Append(opened, n) ELSE opened
    /\ openFiles' = IF r.leak THEN openFiles \cup {n} ELSE openFiles
    /\ scanned' = IF r.scan
                  THEN Append(scanned, [node |-> n,
                                        found |-> SubSeq(r.tags, Len(tags) + 1, Len(r.tags))])
                  ELSE scanned
    /\ tags' = r.tags

\* Walk is called: WalkDir stats the root.  When the root cannot be stat'ed
\* WalkDir calls the visitor with a nil entry and the error, and the visitor's
\* d.IsDir() dereferences nil.
WalkBegin ==
    /\ pc = "start"
    /\ \E lstatOk \in BOOLEAN :
        IF lstatOk
        THEN /\ pc' = "walking"
             /\ todo' = <<Root>>
             /\ UNCHANGED <<visited, failed>>
        ELSE /\ pc' = "panicked"
             /\ visited' = Append(visited, [node |-> 0, wErr |-> "ErrLstat"])
             /\ failed' = Append(failed, [node |-> 0, err |-> "ErrLstat",
                                          at |-> Len(visited) + 1])
             /\ UNCHANGED todo
    /\ UNCHANGED <<ignorePatterns, cur, tags, err, ret, opened, openFiles, scanned>>
    /\ UNCHANGED notWalkVars

\* WalkDir hands the next directory to the visitor (wErr = nil).  SkipDir makes
\* WalkDir leave the directory unread; nil makes it read the directory.
VisitDir ==
    /\ pc = "walking" /\ err = NoErr /\ todo # <<>>
    /\ IsDir[Head(todo)]
    /\ LET n == Head(todo)
           r == Visitor(n, NoErr, ignorePatterns, tags, "ok", 0)
       IN  /\ Record(n, NoErr, r)
           /\ todo' = Tail(todo)
           /\ IF r.ret = SkipDir
              THEN UNCHANGED <<pc, cur, err>>
              ELSE IF r.ret = NoErr
              THEN pc' = "listing" /\ cur' = n /\ UNCHANGED err
              ELSE err' = r.ret /\ UNCHANGED <<pc, cur>>
    /\ UNCHANGED <<ignorePatterns, ret, failed>>
    /\ UNCHANGED notWalkVars

\* ReadDir succeeds: the children are walked next, in listing order.
ReadDirOk ==
    /\ pc = "listing"
    /\ todo' = Children[cur] \o todo
    /\ pc' = "walking"
    /\ cur' = 0
    /\ UNCHANGED <<ignorePatterns, tags, err, ret, visited, opened, openFiles,
                   scanned, failed>>
    /\ UNCHANGED notWalkVars

\* ReadDir fails: WalkDir calls the visitor a second time for the directory,
\* with the error, and then walks the entries ReadDir returned before it
\* failed unless the visitor returns an error.
VisitDirListErr ==
    /\ pc = "listing"
    /\ LET r == Visitor(cur, ErrReadDir, ignorePatterns, tags, "ok", 0)
       IN  /\ Record(cur, ErrReadDir, r)
           /\ failed' = Append(failed, [node |-> cur, err |-> ErrReadDir,
                                        at |-> Len(visited) + 1])
           /\ \E j \in 0..Len(Children[cur]) :
                todo' = IF r.ret = NoErr
                        THEN SubSeq(Children[cur], 1, j) \o todo
                        ELSE todo
           /\ err' = IF r.ret \in {NoErr, SkipDir} THEN NoErr ELSE r.ret
    /\ pc' = "walking"
    /\ cur' = 0
    /\ UNCHANGED <<ignorePatterns, ret>>
    /\ UNCHANGED notWalkVars

\* WalkDir hands the next file to the visitor (wErr = nil).
VisitFile ==
    /\ pc = "walking" /\ err = NoErr /\ todo # <<>>
    /\ ~IsDir[Head(todo)]
    /\ \E o \in FileOutcomes, k \in 0..MaxTagsPerFile :
        LET n == Head(todo)
            r == Visitor(n, NoErr, ignorePatterns, tags, o, k)
        IN  /\ Record(n, NoErr, r)
            /\ failed' = IF r.fail # NoErr
                         THEN Append(failed, [node |-> n, err |-> r.fail,
                                              at |-> Len(visited) + 1])
                         ELSE failed
            /\ err' = r.ret
    /\ todo' = Tail(todo)
    /\ UNCHANGED <<pc, ignorePatterns, cur, ret>>
    /\ UNCHANGED notWalkVars

\* WalkDir returns, on the first error of the visitor or at the end of the
\* tree, and Walk returns tags and that error.
WalkReturn ==
    /\ pc = "walking"
    /\ err # NoErr \/ todo = <<>>
    /\ ret' = WalkResult(tags, err)
    /\ pc' = "done"
    /\ UNCHANGED <<ignorePatterns, todo, cur, tags, err, visited, opened,
                   openFiles, scanned, failed>>
    /\ UNCHANGED notWalkVars

\* the Comment variables while the walker runs
CommentIdle ==
    /\ c = [SingleLinePrefix |-> <<>>, MultiLineStartPrefix |-> <<>>,
            MultiLineEndPrefix |-> <<>>, CurrentPrefix |-> <<>>,
            CurrentLineType |-> ""]
    /\ op = "none"
    /\ arg = <<>>
    /\ annotation = <<>>
    /\ content = <<>>
    /\ found = FALSE
    /\ repeat = FALSE
    /\ block = <<>>

\* the walker variables while a Comment is used
WalkIdle ==
    /\ pc = "idle"
    /\ ignorePatterns = <<>>
    /\ todo = <<>>
    /\ cur = 0
    /\ tags = <<>>
    /\ err = NoErr
    /\ ret = WalkResult(<<>>, NoErr)
    /\ visited = <<>>
    /\ opened = <<>>
    /\ openFiles = {}
    /\ scanned = <<>>
    /\ failed = <<>>

InitWalk ==
    /\ pc = "start"
    /\ ignorePatterns \in PatternLists
    /\ todo = <<>>
    /\ cur = 0
    /\ tags = <<>>
    /\ err = NoErr
    /\ ret = WalkResult(<<>>, NoErr)
    /\ visited = <<>>
    /\ opened = <<>>
    /\ openFiles = {}
    /\ scanned = <<>>
    /\ failed = <<>>
    /\ CommentIdle
    /\ FileIdle
    /\ RecordIdle
    /\ SelectIdle
    /\ TokenIdle

NextWalk ==
    \/ WalkBegin
    \/ VisitDir
    \/ ReadDirOk
    \/ VisitDirListErr
    \/ VisitFile
    \/ WalkReturn

SpecWalk == InitWalk /\ [][NextWalk]_vars


\* --------------------------------------------------------- issue.Comment
LINE_TYPE_SRC_CODE == "src-code"
LINE_TYPE_SINGLE == "single"
LINE_TYPE_MULTI_START == "multi-start"
LINE_TYPE_MULTI_END == "multi-end"

\* unicode.IsSpace, on the characters the lines are made of
IsSpace(ch) == ch \in {" ", "\t"}

\* strings.TrimLeftFunc(line, unicode.IsSpace)
RECURSIVE TrimLeft(_)
TrimLeft(s) ==
    IF s # <<>> /\ IsSpace(Head(s)) THEN TrimLeft(Tail(s)) ELSE s

\* strings.Fields: the maximal runs of non-space characters, in order.
\* word is the run being read, acc the fields completed so far.
RECURSIVE FieldsFrom(_, _, _)
FieldsFrom(s, word, acc) ==
    IF s = <<>>
    THEN IF word = <<>> THEN acc ELSE Append(acc, word)
    ELSE IF IsSpace(Head(s))
    THEN FieldsFrom(Tail(s), <<>>, IF word = <<>> THEN acc ELSE Append(acc, word))
    ELSE FieldsFrom(Tail(s), Append(word, Head(s)), acc)

Fields(s) == FieldsFrom(s, <<>>, <<>>)

\* strings.Join
RECURSIVE Join(_, _)
Join(elems, sep) ==
    IF elems = <<>> THEN <<>>
    ELSE IF Len(elems) = 1 THEN elems[1]
    ELSE elems[1] \o sep \o Join(Tail(elems), sep)

CommentSymbols ==
    [k \in {".c", ".py", ".md", "default"} |->
        CASE k = ".c" ->
               [SingleLinePrefix |-> << <<"/","/">> >>,
                MultiLineStartPrefix |-> << <<"/","*">> >>,
                MultiLineEndPrefix |-> << <<"*","/">> >>,
                CurrentPrefix |-> <<>>, CurrentLineType |-> ""]
          [] k = ".py" ->
               [SingleLinePrefix |-> << <<"#">> >>,
                MultiLineStartPrefix |-> << <<"\"","\"","\"">>, <<"'","'","'">> >>,
                MultiLineEndPrefix |-> << <<"\"","\"","\"">>, <<"'","'","'">> >>,
                CurrentPrefix |-> <<>>, CurrentLineType |-> ""]
          [] k = ".md" ->
               [SingleLinePrefix |-> <<>>,
                MultiLineStartPrefix |-> << <<"<","!","-","-">> >>,
                MultiLineEndPrefix |-> << <<"-","-",">">> >>,
                CurrentPrefix |-> <<>>, CurrentLineType |-> ""]
          [] OTHER ->
               [SingleLinePrefix |-> << <<"#">> >>,
                MultiLineStartPrefix |-> << <<"#">> >>,
                MultiLineEndPrefix |-> << <<"#">> >>,
                CurrentPrefix |-> <<>>, CurrentLineType |-> ""]]

\* the extensions CommentPrefixes maps onto the C syntax
CFamilyExts ==
    {".c", ".cpp", ".java", ".js", ".jsx", ".ts", ".tsx", ".cs", ".go", ".php",
     ".swift", ".kt", ".rs", ".m", ".scala"}

\* A CommentPrefixes that maps .html onto the Markdown syntax.
CommentPrefixesHtmlAsMarkdown(ext) ==
    CASE ext \in CFamilyExts -> CommentSymbols[".c"]
      [] ext = ".py" -> CommentSymbols[".py"]
      [] ext \in {".md", ".html"} -> CommentSymbols[".md"]
      [] OTHER -> CommentSymbols["default"]

CommentPrefixes(ext) ==
    CASE ext \in CFamilyExts -> CommentSymbols[".c"]
      [] ext = ".py" -> CommentSymbols[".py"]
      [] ext = ".md" -> CommentSymbols[".md"]
      [] OTHER -> CommentSymbols["default"]

\* The loop of extractAfterPrefix from field i on, start being the index (from
\* 0, as in the code) after the last field equal to prefix seen so far.
RECURSIVE AfterPrefixLoop(_, _, _, _, _)
AfterPrefixLoop(fields, ann, prefix, i, start) ==
    IF i > Len(fields)
    THEN [content |-> Join(SubSeq(fields, start + 1, Len(fields)), <<" ">>),
          found |-> FALSE]
    ELSE IF fields[i] = ann
    THEN [content |-> Join(SubSeq(fields, i + 1, Len(fields)), <<" ">>),
          found |-> TRUE]
    ELSE AfterPrefixLoop(fields, ann, prefix, i + 1,
                         IF fields[i] = prefix THEN i ELSE start)

\* An extractAfterPrefix whose slice starts at the annotation, not after it.
extractAfterPrefixKeepToken(fields, ann, prefix) ==
    LET r == AfterPrefixLoop(fields, ann, prefix, 1, 0)
        at == CHOOSE i \in 1..Len(fields) :
                 fields[i] = ann /\ \A j \in 1..(i - 1) : fields[j] # ann
    IN  IF Len(fields) = 0
        THEN [content |-> <<>>, found |-> FALSE]
        ELSE IF r.found
        THEN [content |-> Join(SubSeq(fields, at, Len(fields)), <<" ">>),
              found |-> TRUE]
        ELSE r

\* An extractAfterPrefix whose fallback keeps every field, the prefix too.
extractAfterPrefixKeepPrefix(fields, ann, prefix) ==
    LET r == AfterPrefixLoop(fields, ann, prefix, 1, 0)
    IN  IF Len(fields) = 0
        THEN [content |-> <<>>, found |-> FALSE]
        ELSE IF r.found
        THEN r
        ELSE [content |-> Join(fields, <<" ">>), found |-> FALSE]

extractAfterPrefix(fields, ann, prefix) ==
    IF Len(fields) = 0
    THEN [content |-> <<>>, found |-> FALSE]
    ELSE AfterPrefixLoop(fields, ann, prefix, 1, 0)

\* An extractBeforeSuffix that keeps a last field equal to the prefix.
extractBeforeSuffixKeepSuffix(fields, ann, prefix) ==
    IF Len(fields) = 0
    THEN [content |-> <<>>, found |-> FALSE]
    ELSE extractAfterPrefix(fields, ann, prefix)

extractBeforeSuffix(fields, ann, prefix) ==
    IF Len(fields) = 0
    THEN [content |-> <<>>, found |-> FALSE]
    ELSE IF fields[Len(fields)] = prefix
    THEN extractAfterPrefix(SubSeq(fields, 1, Len(fields) - 1), ann, prefix)
    ELSE extractAfterPrefix(fields, ann, prefix)

\* the first index of ps whose prefix the line starts with (0: none)
FirstSingle(ps, trimmedLine) ==
    IF \E i \in 1..Len(ps) : HasPrefix(trimmedLine, ps[i])
    THEN CHOOSE i \in 1..Len(ps) :
            /\ HasPrefix(trimmedLine, ps[i])
            /\ \A j \in 1..(i - 1) : ~HasPrefix(trimmedLine, ps[j])
    ELSE 0

\* the first index of a delimiter pair the line starts or ends with (0: none)
FirstMulti(cm, trimmedLine) ==
    LET hit(i) == \/ HasPrefix(trimmedLine, cm.MultiLineStartPrefix[i])
                  \/ HasSuffix(trimmedLine, cm.MultiLineEndPrefix[i])
    IN  IF \E i \in 1..Len(cm.MultiLineStartPrefix) : hit(i)
        THEN CHOOSE i \in 1..Len(cm.MultiLineStartPrefix) :
                hit(i) /\ \A j \in 1..(i - 1) : ~hit(j)
        ELSE 0

\* A SetLineTypeAndPrefix that tests the end delimiter of a pair before its
\* start delimiter.
SetLineTypeAndPrefixEndFirst(cm, line) ==
    LET trimmedLine == TrimLeft(line)
        si == FirstSingle(cm.SingleLinePrefix, trimmedLine)
        mi == FirstMulti(cm, trimmedLine)
    IN  IF /\ cm.CurrentPrefix # <<>>
           /\ \/ HasPrefix(trimmedLine, cm.CurrentPrefix)
              \/ HasSuffix(trimmedLine, cm.CurrentPrefix)
        THEN cm
        ELSE IF si # 0
        THEN [cm EXCEPT !.CurrentLineType = LINE_TYPE_SINGLE,
                        !.CurrentPrefix = cm.SingleLinePrefix[si]]
        ELSE IF mi # 0 /\ HasSuffix(trimmedLine, cm.MultiLineEndPrefix[mi])
        THEN [cm EXCEPT !.CurrentLineType = LINE_TYPE_MULTI_END,
                        !.CurrentPrefix = cm.MultiLineEndPrefix[mi]]
        ELSE IF mi # 0
        THEN [cm EXCEPT !.CurrentLineType = LINE_TYPE_MULTI_START,
                        !.CurrentPrefix = cm.MultiLineStartPrefix[mi]]
        ELSE [cm EXCEPT !.CurrentLineType = LINE_TYPE_SRC_CODE,
                        !.CurrentPrefix = <<>>]

\* A SetLineTypeAndPrefix whose continuation test looks at the start of the
\* line only.
SetLineTypeAndPrefixNoSuffix(cm, line) ==
    LET trimmedLine == TrimLeft(line)
        si == FirstSingle(cm.SingleLinePrefix, trimmedLine)
        mi == FirstMulti(cm, trimmedLine)
    IN  IF cm.CurrentPrefix # <<>> /\ HasPrefix(trimmedLine, cm.CurrentPrefix)
        THEN cm
        ELSE IF si # 0
        THEN [cm EXCEPT !.CurrentLineType = LINE_TYPE_SINGLE,
                        !.CurrentPrefix = cm.SingleLinePrefix[si]]
        ELSE IF mi # 0 /\ HasPrefix(trimmedLine, cm.MultiLineStartPrefix[mi])
        THEN [cm EXCEPT !.CurrentLineType = LINE_TYPE_MULTI_START,
                        !.CurrentPrefix = cm.MultiLineStartPrefix[mi]]
        ELSE IF mi # 0
        THEN [cm EXCEPT !.CurrentLineType = LINE_TYPE_MULTI_END,
                        !.CurrentPrefix = cm.MultiLineEndPrefix[mi]]
        ELSE [cm EXCEPT !.CurrentLineType = LINE_TYPE_SRC_CODE,
                        !.CurrentPrefix = <<>>]

\* A SetLineTypeAndPrefix that takes a continuation line for the end of the
\* comment and clears the state.
SetLineTypeAndPrefixCloseOnContinuation(cm, line) ==
    LET trimmedLine == TrimLeft(line)
        si == FirstSingle(cm.SingleLinePrefix, trimmedLine)
        mi == FirstMulti(cm, trimmedLine)
    IN  IF /\ cm.CurrentPrefix # <<>>
           /\ \/ HasPrefix(trimmedLine, cm.CurrentPrefix)
              \/ HasSuffix(trimmedLine, cm.CurrentPrefix)
        THEN [cm EXCEPT !.CurrentLineType = LINE_TYPE_SRC_CODE,
                        !.CurrentPrefix = <<>>]
        ELSE IF si # 0
        THEN [cm EXCEPT !.CurrentLineType = LINE_TYPE_SINGLE,
                        !.CurrentPrefix = cm.SingleLinePrefix[si]]
        ELSE IF mi # 0 /\ HasPrefix(trimmedLine, cm.MultiLineStartPrefix[mi])
        THEN [cm EXCEPT !.CurrentLineType = LINE_TYPE_MULTI_START,
                        !.CurrentPrefix = cm.MultiLineStartPrefix[mi]]
        ELSE IF mi # 0
        THEN [cm EXCEPT !.CurrentLineType = LINE_TYPE_MULTI_END,
                        !.CurrentPrefix = cm.MultiLineEndPrefix[mi]]
        ELSE [cm EXCEPT !.CurrentLineType = LINE_TYPE_SRC_CODE,
                        !.CurrentPrefix = <<>>]

\* Comment.SetLineTypeAndPrefix: the Comment after the call
SetLineTypeAndPrefix(cm, line) ==
    LET trimmedLine == TrimLeft(line)
        si == FirstSingle(cm.SingleLinePrefix, trimmedLine)
        mi == FirstMulti(cm, trimmedLine)
    IN  IF /\ cm.CurrentPrefix # <<>>
           /\ \/ HasPrefix(trimmedLine, cm.CurrentPrefix)
              \/ HasSuffix(trimmedLine, cm.CurrentPrefix)
        THEN cm
        ELSE IF si # 0
        THEN [cm EXCEPT !.CurrentLineType = LINE_TYPE_SINGLE,
                        !.CurrentPrefix = cm.SingleLinePrefix[si]]
        ELSE IF mi # 0 /\ HasPrefix(trimmedLine, cm.MultiLineStartPrefix[mi])
        THEN [cm EXCEPT !.CurrentLineType = LINE_TYPE_MULTI_START,
                        !.CurrentPrefix = cm.MultiLineStartPrefix[mi]]
        ELSE IF mi # 0
        THEN [cm EXCEPT !.CurrentLineType = LINE_TYPE_MULTI_END,
                        !.CurrentPrefix = cm.MultiLineEndPrefix[mi]]
        ELSE [cm EXCEPT !.CurrentLineType = LINE_TYPE_SRC_CODE,
                        !.CurrentPrefix = <<>>]

\* Comment.ExtractCommentContent: the Comment after the call, the line it
\* classified, and the two results
ExtractCommentContent(cm, line, ann) ==
    LET fields == Fields(line)
        joined == Join(fields, <<" ">>)
        c2 == SetLineTypeAndPrefix(cm, joined)
        r == IF c2.CurrentLineType = LINE_TYPE_MULTI_END
             THEN extractBeforeSuffix(fields, ann, c2.CurrentPrefix)
             ELSE extractAfterPrefix(fields, ann, c2.CurrentPrefix)
    IN  [c |-> c2, arg |-> joined, content |-> r.content, found |-> r.found]


\* ------------------------------------------------- the lines fed to a Comment
Token == <<"@","T","O","D","O">>
Word == <<"x">>

Range(s) == {s[i] : i \in 1..Len(s)}

\* the comment delimiters of a syntax
Delims(cm) ==
    Range(cm.SingleLinePrefix) \cup Range(cm.MultiLineStartPrefix)
        \cup Range(cm.MultiLineEndPrefix)

\* the fields lines are generated from: the delimiters of the syntax, the
\* annotation token, a word, and the word with the first end delimiter glued
\* to it
Vocabulary(cm) ==
    Delims(cm) \cup {Token, Word, Word \o cm.MultiLineEndPrefix[1]}

FieldSeqs(cm) == UNION {[1..k -> Vocabulary(cm)] : k \in 0..MaxFields}

\* a line with a leading tab, doubled separators and a trailing space
PaddedLine(cm) ==
    <<"\t">> \o cm.MultiLineStartPrefix[1] \o <<" ", " ">> \o Word \o <<" ">>

\* the lines of the specification's examples
\* // @TODO fix bug
LineFixBug ==
    <<"/","/"," ","@","T","O","D","O"," ","f","i","x"," ","b","u","g">>
\* /* @TODO one-liner */
LineOneLiner ==
    <<"/","*"," ","@","T","O","D","O"," ","o","n","e","-","l","i","n","e","r",
      " ","*","/">>
\* /* @TODO refactor
LineRefactor ==
    <<"/","*"," ","@","T","O","D","O"," ","r","e","f","a","c","t","o","r">>
\*    this function later */
LineLater ==
    <<" "," "," ","t","h","i","s"," ","f","u","n","c","t","i","o","n"," ",
      "l","a","t","e","r"," ","*","/">>
\* @TODO fix */
LineFixEnd == <<"@","T","O","D","O"," ","f","i","x"," ","*","/">>

\* the example lines, which are lines of C-syntax files
ExampleLines(cm) ==
    IF cm.SingleLinePrefix = CommentSymbols[".c"].SingleLinePrefix
    THEN {LineFixBug, LineOneLiner, LineRefactor, LineLater, LineFixEnd}
    ELSE {}

\* the lines a Comment is fed: the generated ones, single-spaced, the
\* examples and the padded line
Lines(cm) ==
    {Join(fs, <<" ">>) : fs \in FieldSeqs(cm)}
        \cup ExampleLines(cm) \cup {PaddedLine(cm)}

\* the annotation tokens a caller searches for
Annotations == {Token}

\* the end delimiter paired with a start delimiter
EndOf(cm, start) ==
    cm.MultiLineEndPrefix[
        CHOOSE i \in 1..Len(cm.MultiLineStartPrefix) :
            cm.MultiLineStartPrefix[i] = start]

\* The open block after a call that classified line and left the Comment c2:
\* a line showing the end delimiter of the open block closes it, a line
\* classified MULTI_START that shows no end delimiter of its own opens one.
NextBlock(c2, line) ==
    IF c2.CurrentLineType = LINE_TYPE_MULTI_START
    THEN IF Contains(line, EndOf(c2, c2.CurrentPrefix))
         THEN <<>>
         ELSE c2.CurrentPrefix
    ELSE IF block # <<>> /\ Contains(line, EndOf(c2, block))
    THEN <<>>
    ELSE block

\* c.ExtractCommentContent(line, ann)
DoExtractCommentContent ==
    /\ \E line \in Lines(c), ann \in Annotations :
        \E r \in {ExtractCommentContent(c, line, ann)} :
            /\ c' = r.c
            /\ arg' = r.arg
            /\ annotation' = ann
            /\ content' = r.content
            /\ found' = r.found
            /\ repeat' = (op # "none" /\ r.arg = arg)
            /\ block' = NextBlock(r.c, r.arg)
    /\ op' = "ExtractCommentContent"
    /\ UNCHANGED notCommentVars

\* c.SetLineTypeAndPrefix(line)
DoSetLineTypeAndPrefix ==
    /\ \E line \in Lines(c) :
        \E c2 \in {SetLineTypeAndPrefix(c, line)} :
            /\ c' = c2
            /\ arg' = line
            /\ repeat' = (op # "none" /\ line = arg)
            /\ block' = NextBlock(c2, line)
    /\ op' = "SetLineTypeAndPrefix"
    /\ annotation' = <<>>
    /\ content' = <<>>
    /\ found' = FALSE
    /\ UNCHANGED notCommentVars

\* the extensions files are scanned with: the mapped ones and two others
Exts == CFamilyExts \cup {".py", ".md", ".txt", ".hs"}

InitComment ==
    /\ \E ext \in Exts : c = CommentPrefixes(ext)
    /\ op = "none"
    /\ arg = <<>>
    /\ annotation = <<>>
    /\ content = <<>>
    /\ found = FALSE
    /\ repeat = FALSE
    /\ block = <<>>
    /\ WalkIdle
    /\ FileIdle
    /\ RecordIdle
    /\ SelectIdle
    /\ TokenIdle

NextComment ==
    \/ DoExtractCommentContent
    \/ DoSetLineTypeAndPrefix

SpecComment == InitComment /\ [][NextComment]_vars

\* ----------------------------------------- one source file, line by line
\* the most words of a generated title or description
MaxWords == 2

\* the titles and descriptions of generated lines: up to MaxWords words
WordSeqs == UNION {[1..k -> {Word}] : k \in 0..MaxWords}

\* the extensions of the files read: every fileExt constant, and two names
\* that have no constant
FileExts ==
    {".asm", ".sh", ".cpp", ".c", ".h", ".cs", ".go", ".hs", ".html", ".jai",
     ".java", ".js", ".jsx", ".kt", ".lisp", ".lua", ".m", ".ml", ".php",
     ".py", ".rb", ".rs", ".md", ".R", ".scala", ".swift", ".ts", ".tsx",
     ".vim", ".zig", ".txt", ""}

\* The lines of a file of syntax cm: for each delimiter pair a block opening
\* with and without the annotation and a block closing, for each single-line
\* prefix a comment with and without the annotation, plain text, and the
\* specification's examples.
FileLines(cm) ==
    LET pairs == 1..Len(cm.MultiLineStartPrefix)
        ln(fs) == Join(fs, <<" ">>)
    IN  {ln(<<cm.MultiLineStartPrefix[i], Token>> \o t) :
            i \in pairs, t \in WordSeqs}
        \cup {ln(<<cm.MultiLineStartPrefix[i]>> \o t) :
                i \in pairs, t \in WordSeqs}
        \cup {ln(d \o <<cm.MultiLineEndPrefix[i]>>) :
                i \in pairs, d \in WordSeqs}
        \cup {ln(<<p, Token>> \o t) :
                p \in Range(cm.SingleLinePrefix), t \in WordSeqs}
        \cup {ln(<<p>> \o t) :
                p \in Range(cm.SingleLinePrefix), t \in WordSeqs}
        \cup {ln(t) : t \in WordSeqs}
        \cup ExampleLines(cm)

\* a file with extension e is taken up: a fresh Comment from CommentPrefixes
NewFile(e) ==
    /\ fileExt' = e
    /\ c' = CommentPrefixes(e)
    /\ last' = NoCall
    /\ op' = "none"
    /\ arg' = <<>>
    /\ annotation' = <<>>
    /\ content' = <<>>
    /\ found' = FALSE
    /\ repeat' = FALSE
    /\ block' = <<>>

\* the scan moves on to the next file
OpenNextFile ==
    /\ op # "none"
    /\ \E e \in FileExts : NewFile(e)
    /\ UNCHANGED <<walkVars, recordVars, selectVars, tokenVars>>

\* the next line of the file goes through c.ExtractCommentContent
ReadLine ==
    /\ \E line \in FileLines(c) :
        \E r \in {ExtractCommentContent(c, line, Token)} :
            /\ c' = r.c
            /\ arg' = r.arg
            /\ content' = r.content
            /\ found' = r.found
            /\ repeat' = (op # "none" /\ r.arg = arg)
            /\ block' = NextBlock(r.c, r.arg)
    /\ op' = "ExtractCommentContent"
    /\ annotation' = Token
    /\ last' = [op |-> op, arg |-> arg, type |-> c.CurrentLineType,
                prefix |-> c.CurrentPrefix, content |-> content,
                found |-> found]
    /\ UNCHANGED <<fileExt, walkVars, recordVars, selectVars, tokenVars>>

InitFile ==
    /\ fileExt \in FileExts
    /\ c = CommentPrefixes(fileExt)
    /\ last = NoCall
    /\ op = "none"
    /\ arg = <<>>
    /\ annotation = <<>>
    /\ content = <<>>
    /\ found = FALSE
    /\ repeat = FALSE
    /\ block = <<>>
    /\ WalkIdle
    /\ RecordIdle
    /\ SelectIdle
    /\ TokenIdle

NextFile ==
    \/ OpenNextFile
    \/ ReadLine

SpecFile == InitFile /\ [][NextFile]_vars

\* ============================================================ claims: Walk
\* a directory the visitor must prune: the version-control metadata
\* directory, or one whose path matches an ignore pattern
PrunedDir(n) ==
    /\ IsDir[n]
    /\ Name[n] = GitDirName \/ ~validatePath(Path[n], ignorePatterns)

\* C1: Open is never called on a file whose path matches an ignore pattern,
\* nor on anything below a directory that matches an ignore pattern or is the
\* .git directory; no entry below such a directory is handed to the visitor.
C1_NoOpenBelowPruned ==
    /\ \A i \in 1..Len(opened) :
          /\ validatePath(Path[opened[i]], ignorePatterns)
          /\ \A a \in Ancestors(opened[i]) : ~PrunedDir(a)
    /\ \A i \in 1..Len(visited) :
          visited[i].node # 0 =>
              \A a \in Ancestors(visited[i].node) : ~PrunedDir(a)

\* C1 witness: a finished walk that met the .git directory, an ignored
\* node_modules directory and an ignored file, and opened other files.
C1_Witness ==
    /\ pc = "done"
    /\ \E i \in 1..Len(visited) : visited[i].node = 2
    /\ \E i \in 1..Len(visited) : visited[i].node = 8 /\ PrunedDir(8)
    /\ \E i \in 1..Len(visited) :
          visited[i].node = 7 /\ ~validatePath(Path[7], ignorePatterns)
    /\ Len(opened) >= 2

FileErrs == {ErrOpen, ErrInfo, ErrScan}

\* C2: when Open, d.Info or ScanForTags fails for a file entry, that is the
\* last visitor call and the last Open of the walk, the visitor returned that
\* error to WalkDir, and Walk returns it.
C2_FileFailureAborts ==
    \A i \in 1..Len(failed) :
        failed[i].err \in FileErrs =>
            /\ i = Len(failed)
            /\ Len(visited) = failed[i].at
            /\ opened[Len(opened)] = failed[i].node
            /\ err = failed[i].err
            /\ pc \in {"walking", "done"}
            /\ pc = "done" => ret.err = failed[i].err

\* C2 witness: Walk returned the error of a failed ScanForTags with entries
\* still unvisited.
C2_Witness ==
    /\ pc = "done"
    /\ failed # <<>>
    /\ failed[Len(failed)].err = ErrScan
    /\ ret.err = ErrScan
    /\ todo # <<>>

\* C3: when listing a directory fails (the visitor is called with a non-nil
\* error, the unreadable root included), that is the last visitor call of the
\* walk and Walk returns that error.
C3_ListingFailureAborts ==
    \A i \in 1..Len(failed) :
        failed[i].err = ErrReadDir =>
            /\ i = Len(failed)
            /\ Len(visited) = failed[i].at
            /\ pc \in {"walking", "done"}
            /\ err = failed[i].err
            /\ pc = "done" => ret.err = failed[i].err

\* the Tags of the ScanForTags calls that succeeded, in call order
RECURSIVE Aggregated(_)
Aggregated(s) ==
    IF s = <<>> THEN <<>> ELSE s[1].found \o Aggregated(Tail(s))

\* C4 as stated: whenever Walk returns a non-nil error it returns no Tags.
C4_ErrorMeansNoTags ==
    (pc = "done" /\ ret.err # NoErr) => ret.tags = <<>>

\* C4 as amended: whenever Walk returns a non-nil error, the Tags it returns
\* are those of every ScanForTags call that succeeded before the failure.
C4_ErrorKeepsAggregatedTags ==
    (pc = "done" /\ ret.err # NoErr) => ret.tags = Aggregated(scanned)

\* C4 witness: Walk returned an error together with Tags.
C4_Witness ==
    /\ pc = "done"
    /\ ret.err # NoErr
    /\ ret.tags # <<>>



\* ========================================================= claims: Comment
CStart == CommentSymbols[".c"].MultiLineStartPrefix[1]
CEnd == CommentSymbols[".c"].MultiLineEndPrefix[1]
CSingle == CommentSymbols[".c"].SingleLinePrefix[1]

\* the Comment has the C syntax
IsCStyle(cm) == cm.MultiLineStartPrefix = CommentSymbols[".c"].MultiLineStartPrefix

\* C5: while a block opened by a MULTI_START line has not been closed by a
\* line showing its end delimiter, the classifier is inside the block: the
\* line type is not SRC_CODE and the active prefix is the block's delimiter.
C5_BlockStaysOpen ==
    block # <<>> =>
        /\ c.CurrentLineType # LINE_TYPE_SRC_CODE
        /\ c.CurrentPrefix = block

\* a C line that starts with the start delimiter and ends with the end one
StartsAndEnds(line) ==
    /\ HasPrefix(TrimLeft(line), CStart)
    /\ HasSuffix(TrimLeft(line), CEnd)

\* C6 as stated: whatever was classified before, a C line that starts with
\* /* and ends with */ is classified MULTI_START with active prefix /*.
C6_StartOverEndEverywhere ==
    (op # "none" /\ IsCStyle(c) /\ StartsAndEnds(arg)) =>
        /\ c.CurrentLineType = LINE_TYPE_MULTI_START
        /\ c.CurrentPrefix = CStart

\* C6 as amended: a C line that starts with /* and ends with */ is classified
\* MULTI_START with active prefix /* from every state whose active prefix is
\* not */; from a state whose active prefix is */ it is a continuation and
\* leaves the state (MULTI_END, */) as it was.
C6_StartOverEndUnlessEndActive ==
    [][(IsCStyle(c) /\ StartsAndEnds(arg')) =>
          IF c.CurrentPrefix = CEnd
          THEN /\ c'.CurrentLineType = LINE_TYPE_MULTI_END
               /\ c'.CurrentPrefix = CEnd
               /\ c.CurrentLineType = LINE_TYPE_MULTI_END
          ELSE /\ c'.CurrentLineType = LINE_TYPE_MULTI_START
               /\ c'.CurrentPrefix = CStart]_vars

\* C6 witness: `/* @TODO one-liner */` was classified MULTI_START, and the
\* same line was classified MULTI_START again.
C6_Witness ==
    /\ arg = LineOneLiner
    /\ repeat
    /\ c.CurrentLineType = LINE_TYPE_MULTI_START
    /\ c.CurrentPrefix = CStart

\* C7: a call whose line, left-trimmed, starts or ends with the non-empty
\* active prefix leaves CurrentLineType and CurrentPrefix unchanged; every
\* call leaves the three syntax fields unchanged.
C7_ContinuationKeepsState ==
    [][/\ (/\ c.CurrentPrefix # <<>>
           /\ \/ HasPrefix(TrimLeft(arg'), c.CurrentPrefix)
              \/ HasSuffix(TrimLeft(arg'), c.CurrentPrefix))
          => /\ c'.CurrentLineType = c.CurrentLineType
             /\ c'.CurrentPrefix = c.CurrentPrefix
       /\ c'.SingleLinePrefix = c.SingleLinePrefix
       /\ c'.MultiLineStartPrefix = c.MultiLineStartPrefix
       /\ c'.MultiLineEndPrefix = c.MultiLineEndPrefix]_vars

\* C7 witness: inside a C block, a line that starts with // and ends with the
\* active prefix /* was classified and the state is still (MULTI_START, /*).
C7_Witness ==
    /\ op = "SetLineTypeAndPrefix"
    /\ IsCStyle(c)
    /\ HasPrefix(arg, CSingle)
    /\ HasSuffix(arg, CStart)
    /\ c.CurrentLineType = LINE_TYPE_MULTI_START
    /\ c.CurrentPrefix = CStart

\* C8: classifying the line of the call before once more leaves
\* CurrentLineType and CurrentPrefix as that call left them.
C8_ClassifyIdempotent ==
    [][(op # "none" /\ arg' = arg) =>
          /\ c'.CurrentLineType = c.CurrentLineType
          /\ c'.CurrentPrefix = c.CurrentPrefix]_vars

\* C8 witness: the same line was classified twice in a row, in a state other
\* than the fresh one, and is a MULTI_END line.
C8_Witness ==
    /\ repeat
    /\ c.CurrentLineType = LINE_TYPE_MULTI_END
    /\ arg # <<>>

\* C9: the content ExtractCommentContent returns for a line it classified
\* MULTI_END does not contain the end delimiter.
C9_NoEndDelimiterInContent ==
    (op = "ExtractCommentContent" /\ c.CurrentLineType = LINE_TYPE_MULTI_END) =>
        ~Contains(content, c.CurrentPrefix)

\* the first index of field f in fs (0: none)
FirstIndex(fs, f) ==
    IF \E i \in 1..Len(fs) : fs[i] = f
    THEN CHOOSE i \in 1..Len(fs) : fs[i] = f /\ \A j \in 1..(i - 1) : fs[j] # f
    ELSE 0

\* the fields after the first field equal to f, joined by single spaces
AfterFirst(fs, f) == Join(SubSeq(fs, FirstIndex(fs, f) + 1, Len(fs)), <<" ">>)

\* C10 as stated: when a field of the line equals the annotation token,
\* found is true and content is all the fields after the first such field,
\* joined by single spaces.
C10_TokenFoundAllFieldsAfter ==
    (op = "ExtractCommentContent" /\ FirstIndex(Fields(arg), annotation) # 0) =>
        /\ found
        /\ content = AfterFirst(Fields(arg), annotation)

\* the fields ExtractCommentContent searches: those of the line, less the
\* last one when the line is classified MULTI_END and its last field is the
\* active prefix
SearchedFields ==
    LET fs == Fields(arg)
    IN  IF /\ c.CurrentLineType = LINE_TYPE_MULTI_END
           /\ fs # <<>>
           /\ fs[Len(fs)] = c.CurrentPrefix
        THEN SubSeq(fs, 1, Len(fs) - 1)
        ELSE fs

\* C10 as amended: when a searched field equals the annotation token, found
\* is true and content is the searched fields after the first such field,
\* joined by single spaces; `// @TODO fix bug` is SINGLE and yields "fix bug",
\* and `/* @TODO one-liner */`, unless it continues a MULTI_END state, is
\* MULTI_START and yields "one-liner */".
C10_TokenFoundSearchedFieldsAfter ==
    op = "ExtractCommentContent" =>
        /\ FirstIndex(SearchedFields, annotation) # 0 =>
              /\ found
              /\ content = AfterFirst(SearchedFields, annotation)
        /\ c.CurrentLineType # LINE_TYPE_MULTI_END =>
              SearchedFields = Fields(arg)
        /\ arg = LineFixBug =>
              /\ c.CurrentLineType = LINE_TYPE_SINGLE
              /\ found
              /\ content = <<"f","i","x"," ","b","u","g">>
        /\ (arg = LineOneLiner /\ c.CurrentLineType # LINE_TYPE_MULTI_END) =>
              /\ c.CurrentLineType = LINE_TYPE_MULTI_START
              /\ found
              /\ content = <<"o","n","e","-","l","i","n","e","r"," ","*","/">>

\* C10 witness: `/* @TODO one-liner */` was extracted as MULTI_START with
\* content "one-liner */".
C10_Witness ==
    /\ op = "ExtractCommentContent"
    /\ arg = LineOneLiner
    /\ c.CurrentLineType = LINE_TYPE_MULTI_START
    /\ found
    /\ content = <<"o","n","e","-","l","i","n","e","r"," ","*","/">>

\* the last index of field f in fs (0: none)
LastIndex(fs, f) ==
    IF \E i \in 1..Len(fs) : fs[i] = f
    THEN CHOOSE i \in 1..Len(fs) :
            fs[i] = f /\ \A j \in (i + 1)..Len(fs) : fs[j] # f
    ELSE 0

\* the fields after the last field equal to f (all of them when f is no
\* field), joined by single spaces
AfterLast(fs, f) == Join(SubSeq(fs, LastIndex(fs, f) + 1, Len(fs)), <<" ">>)

\* C11 as stated: when no field of the line equals the annotation token,
\* found is false and content is the fields of the line after the last field
\* equal to the active prefix (all of them when the prefix is no field),
\* joined by single spaces; a line with no fields yields ("", false).
C11_FallbackAllFieldsAfterPrefix ==
    (op = "ExtractCommentContent" /\ FirstIndex(Fields(arg), annotation) = 0) =>
        /\ ~found
        /\ content = AfterLast(Fields(arg), c.CurrentPrefix)

\* C11 as amended: when no searched field equals the annotation token, found
\* is false and content is the searched fields after the last one equal to
\* the active prefix (all of them when the prefix is no searched field),
\* joined by single spaces; no searched field yields ("", false); the searched
\* fields are the fields of the line except on a MULTI_END line.
C11_FallbackSearchedFieldsAfterPrefix ==
    (op = "ExtractCommentContent" /\ FirstIndex(SearchedFields, annotation) = 0) =>
        /\ ~found
        /\ content = AfterLast(SearchedFields, c.CurrentPrefix)
        /\ SearchedFields = <<>> => content = <<>>
        /\ c.CurrentLineType # LINE_TYPE_MULTI_END =>
              SearchedFields = Fields(arg)

\* C11 witness: `x */` was extracted as MULTI_END without the token, and the
\* content is "x", the field before the dropped end delimiter.
C11_Witness ==
    /\ op = "ExtractCommentContent"
    /\ c.CurrentLineType = LINE_TYPE_MULTI_END
    /\ Fields(arg) = << <<"x">>, <<"*","/">> >>
    /\ ~found
    /\ content = <<"x">>

\* ============================================================ claims: files
\* fields that are plain words: not the token, and showing no C delimiter
PlainWords(fs) ==
    \A i \in 1..Len(fs) :
        /\ fs[i] # Token
        /\ ~Contains(fs[i], CStart)
        /\ ~Contains(fs[i], CEnd)
        /\ ~Contains(fs[i], CSingle)

\* the title words t of a line `/* TOKEN t`
TitleOf(line) == SubSeq(Fields(line), 3, Len(Fields(line)))

\* the line is `/* TOKEN t` for title words t
IsTitleLine(line) ==
    /\ Len(Fields(line)) >= 2
    /\ Fields(line)[1] = CStart
    /\ Fields(line)[2] = Token
    /\ PlainWords(TitleOf(line))

\* the description words d of a line `d */`
DescriptionOf(line) == SubSeq(Fields(line), 1, Len(Fields(line)) - 1)

\* the line is `d */` for description words d
IsClosingLine(line) ==
    /\ Len(Fields(line)) >= 1
    /\ Fields(line)[Len(Fields(line))] = CEnd
    /\ PlainWords(DescriptionOf(line))

\* C12: on one C-syntax Comment, `/* TOKEN t` followed by `d */` yields first
\* (MULTI_START, content t, found) and then (MULTI_END, content d without the
\* trailing end delimiter, not found).
C12_TwoLineBlock ==
    (/\ IsCStyle(c)
     /\ last.op = "ExtractCommentContent"
     /\ IsTitleLine(last.arg)
     /\ op = "ExtractCommentContent"
     /\ IsClosingLine(arg)) =>
        /\ last.type = LINE_TYPE_MULTI_START
        /\ last.found
        /\ last.content = Join(TitleOf(last.arg), <<" ">>)
        /\ c.CurrentLineType = LINE_TYPE_MULTI_END
        /\ ~found
        /\ content = Join(DescriptionOf(arg), <<" ">>)

\* C12 witness: `/* @TODO refactor` gave the title "refactor" and the next
\* line `   this function later */` the description "this function later".
C12_Witness ==
    /\ last.op = "ExtractCommentContent"
    /\ last.arg = LineRefactor
    /\ last.content = <<"r","e","f","a","c","t","o","r">>
    /\ last.found
    /\ op = "ExtractCommentContent"
    /\ arg = Join(Fields(LineLater), <<" ">>)
    /\ c.CurrentLineType = LINE_TYPE_MULTI_END
    /\ ~found
    /\ content = <<"t","h","i","s"," ","f","u","n","c","t","i","o","n"," ",
                   "l","a","t","e","r">>

\* the syntax fields of a Comment
SyntaxOf(cm) ==
    <<cm.SingleLinePrefix, cm.MultiLineStartPrefix, cm.MultiLineEndPrefix>>

\* C13: CommentPrefixes is total: an extension with no case of its own gets
\* the default syntax (`#`, `#`, `#`), every C-family extension the C syntax
\* (`//`, `/*`, `*/`), `.md` a syntax with no single-line prefix, and every
\* Comment it returns starts with empty CurrentPrefix and CurrentLineType.
C13_CommentPrefixesTotal ==
    /\ fileExt \in FileExts \ (CFamilyExts \cup {".py", ".md"}) =>
          SyntaxOf(c) = << << <<"#">> >>, << <<"#">> >>, << <<"#">> >> >>
    /\ fileExt \in CFamilyExts =>
          SyntaxOf(c) = << << <<"/","/">> >>, << <<"/","*">> >>,
                           << <<"*","/">> >> >>
    /\ fileExt = ".md" => c.SingleLinePrefix = <<>>
    /\ (fileExt \in FileExts /\ op = "none") =>
          /\ c.CurrentPrefix = <<>>
          /\ c.CurrentLineType = ""

\* C13 witness: a file with the extension .html, which has no case in
\* CommentPrefixes, got a Comment that started with empty CurrentPrefix and
\* CurrentLineType, and its first line `# x` was classified with the default
\* syntax.
C13_Witness ==
    /\ fileExt = ".html"
    /\ last.op = "none"
    /\ last.prefix = <<>>
    /\ last.type = ""
    /\ op = "ExtractCommentContent"
    /\ arg = <<"#"," ","x">>
    /\ c.SingleLinePrefix = << <<"#">> >>
    /\ c.CurrentPrefix = <<"#">>

\* the extensions with a syntax of their own: C-style, Python, Markdown
RegisteredExts == CFamilyExts \cup {".py", ".md"}

\* C18: for every registered syntax and each index-aligned delimiter pair
\* (s, e): after a line starting with s was classified MULTI_START, a later
\* line (here the next one) that does not start with s and ends with e is
\* classified MULTI_END with active prefix e.
C18_EndDelimiterClosesBlock ==
    \A i \in 1..Len(c.MultiLineStartPrefix) :
        (/\ fileExt \in RegisteredExts
         /\ last.op = "ExtractCommentContent"
         /\ HasPrefix(last.arg, c.MultiLineStartPrefix[i])
         /\ last.type = LINE_TYPE_MULTI_START
         /\ op = "ExtractCommentContent"
         /\ ~HasPrefix(arg, c.MultiLineStartPrefix[i])
         /\ HasSuffix(arg, c.MultiLineEndPrefix[i])) =>
            /\ c.CurrentLineType = LINE_TYPE_MULTI_END
            /\ c.CurrentPrefix = c.MultiLineEndPrefix[i]

\* ==================================================== claims: Walk, continued
\* the file entries the visitor was called on so far
VisitedFiles == {visited[i].node : i \in 1..Len(visited)} \ ({0} \cup {n \in Nodes : IsDir[n]})

\* C14: validatePath keeps a path iff no pattern of the set matches it: the
\* order and multiplicity of the patterns do not matter, adding a pattern never
\* turns a rejected path into a kept one, the empty set keeps every path, and
\* the files Walk opens are the visited files that no pattern matches.
C14_RejectIffSomePatternMatches ==
    /\ \A n \in Nodes :
          /\ validatePath(Path[n], ignorePatterns)
                = ~(\E v \in Range(ignorePatterns) : Match(v, Path[n]))
          /\ \A q \in PatternLists :
                Range(q) = Range(ignorePatterns) =>
                    validatePath(Path[n], q) = validatePath(Path[n], ignorePatterns)
          /\ \A v \in PatternPool :
                validatePath(Path[n], Append(ignorePatterns, v)) =>
                    validatePath(Path[n], ignorePatterns)
          /\ validatePath(Path[n], <<>>)
    /\ \A n \in VisitedFiles :
          (\E i \in 1..Len(opened) : opened[i] = n)
              = ~(\E v \in Range(ignorePatterns) : Match(v, Path[n]))

\* C14 witness: a finished walk with two different patterns, the second of
\* which rejected debug.log, while a.go was kept and opened.
C14_Witness ==
    /\ pc = "done"
    /\ Len(ignorePatterns) = 2
    /\ ignorePatterns[2] = "*.log"
    /\ ignorePatterns[1] # "*.log"
    /\ 7 \in VisitedFiles
    /\ \A i \in 1..Len(opened) : opened[i] # 7
    /\ \E i \in 1..Len(opened) : opened[i] = 6

\* s is a prefix of t
IsPrefixOf(s, t) == Len(s) <= Len(t) /\ SubSeq(t, 1, Len(s)) = s

\* the index of the visitor call on file n
VisitIndex(n) == CHOOSE k \in 1..Len(visited) : visited[k].node = n

\* The Tags found so far are those ScanForTags returned, file after file in
\* the order the files were visited, each file once.
TraversalOrdered ==
    /\ tags = Aggregated(scanned)
    /\ \A i \in 1..Len(scanned) :
          /\ scanned[i].found = FoundTags(scanned[i].node, Len(scanned[i].found))
          /\ \A j \in (i + 1)..Len(scanned) :
                /\ scanned[i].node # scanned[j].node
                /\ VisitIndex(scanned[i].node) < VisitIndex(scanned[j].node)
    /\ \A p, q \in 1..Len(tags) : p # q => tags[p] # tags[q]

\* C15: the result only grows by appending: every step leaves the Tags found
\* so far a prefix of the Tags found after it, and the Tags of each file
\* appear once, contiguously, in the order ScanForTags returned them, the
\* Tags of a file visited earlier before those of a file visited later.
C15_AppendOnlyTraversalOrder ==
    [][IsPrefixOf(tags, tags') /\ TraversalOrdered']_vars

\* C15 witness: Walk returned the Tags of three files, two Tags each.
C15_Witness ==
    /\ pc = "done"
    /\ Len(scanned) >= 3
    /\ \A i \in 1..3 : Len(scanned[i].found) = 2
    /\ ret.tags = Aggregated(scanned)

\* C16: at most one file is open at any time, and when Walk has returned,
\* with or without an error, every file it opened has been closed.
C16_EveryOpenedFileClosed ==
    /\ Cardinality(openFiles) <= 1
    /\ pc = "done" => openFiles = {}

\* a file Walk has to scan: no pattern matches its path, and no directory
\* above it, the root included, is .git or matches a pattern
Eligible(n) ==
    /\ ~IsDir[n]
    /\ validatePath(Path[n], ignorePatterns)
    /\ \A a \in Ancestors(n) :
          /\ Name[a] # GitDirName
          /\ validatePath(Path[a], ignorePatterns)

\* C19: when no error occurred, every file under the root that matches no
\* pattern and lies below no directory that is .git or matches a pattern was
\* opened and passed to ScanForTags exactly once.
C19_EveryEligibleFileScannedOnce ==
    (pc = "done" /\ ret.err = NoErr /\ failed = <<>>) =>
        \A n \in Nodes :
            Eligible(n) =>
                /\ Cardinality({i \in 1..Len(opened) : opened[i] = n}) = 1
                /\ Cardinality({i \in 1..Len(scanned) : scanned[i].node = n}) = 1


\* --------------------------------------------------------- lexer.Comment
\* the most bytes of a Title, Description or Source
MaxBytes == 2
\* the largest token index Prepare is given
MaxIndex == 2

\* the byte strings a record holds
ByteStrings == UNION {[1..k -> {"a"}] : k \in 0..MaxBytes}

\* the names of the files records are prepared for
FileNames == {"a.go", "src/main.go"}

\* c.Prepare(fileName, index)
Prepare(cm, fileName, index) ==
    [cm EXCEPT !.TokenIndex = index, !.SourceFileName = fileName]

\* c.Validate()
Validate(cm) == Len(cm.Source) > 0

DoPrepare ==
    /\ \E fileName \in FileNames, index \in 0..MaxIndex :
          comment' = Prepare(comment, fileName, index)
    /\ UNCHANGED valid
    /\ UNCHANGED <<walkVars, commentVars, fileVars, selectVars, tokenVars>>

\* what a Validate call is recorded as
Answer(b) == IF b THEN "true" ELSE "false"

DoValidate ==
    /\ valid' = Answer(Validate(comment))
    /\ UNCHANGED comment
    /\ UNCHANGED <<walkVars, commentVars, fileVars, selectVars, tokenVars>>

InitRecord ==
    /\ \E title \in ByteStrings, description \in ByteStrings,
          source \in ByteStrings :
          comment = [Title |-> title, Description |-> description,
                     TokenIndex |-> 0, Source |-> source,
                     SourceFileName |-> ""]
    /\ valid = "none"
    /\ WalkIdle
    /\ CommentIdle
    /\ FileIdle
    /\ SelectIdle
    /\ TokenIdle

NextRecord ==
    \/ DoPrepare
    \/ DoValidate

SpecRecord == InitRecord /\ [][NextRecord]_vars

\* C17: Validate answers false for every record whose title is empty or whose
\* source is empty and true when both are non-empty, and the answer it gave
\* is the one it would give after any Prepare.
C17_ValidIffTitleAndSource ==
    valid # "none" =>
        /\ valid = Answer(comment.Title # <<>> /\ comment.Source # <<>>)
        /\ valid = Answer(Validate(comment))


\* ----------------------------------------------------------- multiselect
\* the most options a selection list is built with
MaxOptions == 4

\* the list of k Items, told apart by their IDs
Items(k) == [i \in 1..k |-> [ID |-> ToString(i)]]

\* the valid indexes of a list of options (from 0, as in the code)
Indexes(options) == 0..(Len(options) - 1)

\* s.OnSelect(option, value) on the Options map
OnSelect(opts, option, value) == (option :> value) @@ opts

\* the Options map after OnSelect(options[k].ID, true) for every k of keys
RECURSIVE SelectAll(_, _, _)
SelectAll(opts, options, keys) ==
    IF keys = {}
    THEN opts
    ELSE LET k == CHOOSE x \in keys : TRUE
         IN  SelectAll(OnSelect(opts, options[k + 1].ID, TRUE), options,
                       keys \ {k})

\* case "ctrl+c", "q"
KeyQuit ==
    /\ program = "running"
    /\ exit' = TRUE
    /\ program' = "quit"
    /\ UNCHANGED <<m, choices>>
    /\ UNCHANGED <<walkVars, commentVars, fileVars, recordVars, tokenVars>>

\* case "up", "k"
KeyUp ==
    /\ program = "running"
    /\ m' = IF m.cursor > 0 THEN [m EXCEPT !.cursor = @ - 1] ELSE m
    /\ UNCHANGED <<choices, exit, program>>
    /\ UNCHANGED <<walkVars, commentVars, fileVars, recordVars, tokenVars>>

\* case "down", "j"
KeyDown ==
    /\ program = "running"
    /\ m' = IF m.cursor < Len(m.options) - 1
            THEN [m EXCEPT !.cursor = @ + 1]
            ELSE m
    /\ UNCHANGED <<choices, exit, program>>
    /\ UNCHANGED <<walkVars, commentVars, fileVars, recordVars, tokenVars>>

\* case "enter", " "
KeyToggle ==
    /\ program = "running"
    /\ m' = IF m.cursor \in m.selected
            THEN [m EXCEPT !.selected = @ \ {m.cursor}]
            ELSE [m EXCEPT !.selected = @ \cup {m.cursor}]
    /\ UNCHANGED <<choices, exit, program>>
    /\ UNCHANGED <<walkVars, commentVars, fileVars, recordVars, tokenVars>>

\* case "y": the range over the selected map runs in any order; reading
\* m.options at a key that is no index panics, after the keys before it.
KeyConfirm ==
    /\ program = "running"
    /\ IF m.selected \subseteq Indexes(m.options)
       THEN /\ choices' = SelectAll(choices, m.options, m.selected)
            /\ \E lastKey \in (IF m.selected = {} THEN {m.cursor}
                                                  ELSE m.selected) :
                  m' = [m EXCEPT !.cursor = lastKey]
            /\ program' = "quit"
       ELSE /\ \E done \in SUBSET (m.selected \cap Indexes(m.options)) :
                  choices' = SelectAll(choices, m.options, done)
            /\ UNCHANGED m
            /\ program' = "panicked"
    /\ UNCHANGED exit
    /\ UNCHANGED <<walkVars, commentVars, fileVars, recordVars, tokenVars>>

\* InitialModelMultiSelect(options, selection, header, program)
InitSelect ==
    /\ \E k \in 0..MaxOptions :
          m = [cursor |-> 0, options |-> Items(k), selected |-> {}]
    /\ choices = <<>>
    /\ exit = FALSE
    /\ program = "running"
    /\ WalkIdle
    /\ CommentIdle
    /\ FileIdle
    /\ RecordIdle
    /\ TokenIdle

NextSelect ==
    \/ KeyQuit
    \/ KeyUp
    \/ KeyDown
    \/ KeyToggle
    \/ KeyConfirm

SpecSelect == InitSelect /\ [][NextSelect]_vars

\* C20: for every list of options, the empty one too, after any keys the
\* cursor is a valid index (0 for the empty list), every selected index is
\* valid, `y` reads no option out of range, and after `y` the IDs marked true
\* are exactly those of the options toggled on.
C20_SelectionIndexesValid ==
    /\ m.cursor \in Indexes(m.options) \cup {0}
    /\ m.options = <<>> => m.cursor = 0
    /\ m.selected \subseteq Indexes(m.options)
    /\ program # "panicked"
    /\ (program = "quit" /\ ~exit) =>
          {id \in DOMAIN choices : choices[id]}
              = {m.options[k + 1].ID : k \in m.selected}


\* ------------------------------------------------------- scm: token store
GH == <<"g","i","t","h","u","b">>
GL == <<"g","i","t","l","a","b">>
BB == <<"b","i","t","b","u","c","k","e","t">>

\* the platform identifiers the functions are called with
Platforms == {GH, GL, BB}

\* the most characters of an access token
MaxToken == 2

\* the characters of a token: a letter, and a quote that JSON escapes
TokenChars == {"a", "\""}

\* the non-empty access tokens
Tokens == UNION {[1..k -> TokenChars] : k \in 1..MaxToken}

\* the errors of the token functions
ErrUserCurrent == "ErrUserCurrent"
ErrMkdirAll == "ErrMkdirAll"
ErrOpenFile == "ErrOpenFile"
ErrWriteFile == "ErrWriteFile"
ErrNotExist == "ErrNotExist"
ErrOpeningFile == "Error opening file"
ErrDecoding == "Error decoding config file"
ErrNoToken == "Access token does not exist"

\* json.Marshal of a string's characters: quote and backslash are escaped
RECURSIVE Escape(_)
Escape(t) ==
    IF t = <<>>
    THEN <<>>
    ELSE (IF Head(t) \in {"\"", "\\"} THEN <<"\\", Head(t)>> ELSE <<Head(t)>>)
            \o Escape(Tail(t))

\* json.Marshal(config) for the config {k: {AccessToken: t}}
Marshal(k, t) ==
    <<"{", "\"">> \o k \o <<"\"", ":", "{", "\"">>
        \o <<"A","c","c","e","s","s","T","o","k","e","n">>
        \o <<"\"", ":", "\"">> \o Escape(t) \o <<"\"", "}", "}">>

\* file.Write(data) on a file opened without O_TRUNC: the bytes go over the
\* start of the old content, what lies beyond them stays
WriteAtStart(old, data) == data \o SubSeq(old, Len(data) + 1, Len(old))

\* decoder.Decode(&config): the first JSON value of the file, whatever
\* follows it; ok is false when the file does not start with one
Decode(data) ==
    LET hits == {kt \in Platforms \X (Tokens \cup {<<>>}) :
                    HasPrefix(data, Marshal(kt[1], kt[2]))}
    IN  IF hits = {}
        THEN [ok |-> FALSE, key |-> <<>>, token |-> <<>>]
        ELSE LET kt == CHOOSE x \in hits : TRUE
             IN  [ok |-> TRUE, key |-> kt[1], token |-> kt[2]]

\* config[scm].AccessToken
AccessTokenOf(cfg, scm) == IF cfg.key = scm THEN cfg.token ELSE <<>>

\* WriteToken(token, scm), the system calls behaving as env; the switch on
\* scm has the default case only, which stores the token under GH
WriteToken(file, token, scm, env) ==
    IF env = "user"
    THEN [file |-> file, err |-> ErrUserCurrent]
    ELSE IF env = "mkdir"
    THEN [file |-> file, err |-> ErrMkdirAll]
    ELSE IF env = "open"
    THEN [file |-> file, err |-> ErrOpenFile]
    ELSE IF env = "write"
    THEN [file |-> [exists |-> TRUE, data |-> file.data], err |-> ErrWriteFile]
    ELSE [file |-> [exists |-> TRUE,
                    data |-> WriteAtStart(file.data, Marshal(GH, token))],
          err |-> NoErr]

\* the file opened and decoded by CheckForAccess and ReadAccessToken
OpenAndDecode(file, env) ==
    IF env = "user"
    THEN [err |-> ErrUserCurrent, cfg |-> Decode(<<>>)]
    ELSE IF ~file.exists
    THEN [err |-> ErrNotExist, cfg |-> Decode(<<>>)]
    ELSE IF env = "open"
    THEN [err |-> ErrOpeningFile, cfg |-> Decode(<<>>)]
    ELSE IF ~Decode(file.data).ok
    THEN [err |-> ErrDecoding, cfg |-> Decode(<<>>)]
    ELSE [err |-> NoErr, cfg |-> Decode(file.data)]

\* CheckForAccess(scm)
CheckForAccess(file, scm, env) ==
    LET r == OpenAndDecode(file, env)
    IN  IF r.err # NoErr
        THEN [authorized |-> FALSE, err |-> r.err]
        ELSE [authorized |-> AccessTokenOf(r.cfg, scm) # <<>>, err |-> NoErr]

\* ReadAccessToken(scm)
ReadAccessToken(file, scm, env) ==
    LET r == OpenAndDecode(file, env)
    IN  IF r.err # NoErr
        THEN [token |-> <<>>, err |-> r.err]
        ELSE IF AccessTokenOf(r.cfg, scm) = <<>>
        THEN [token |-> <<>>, err |-> ErrNoToken]
        ELSE [token |-> AccessTokenOf(r.cfg, scm), err |-> NoErr]

DoWriteToken ==
    /\ \E token \in Tokens \cup {<<>>}, scm \in Platforms,
          env \in {"ok", "user", "mkdir", "open", "write"} :
          \E r \in {WriteToken(configFile, token, scm, env)} :
              /\ configFile' = r.file
              /\ written' = IF r.err = NoErr
                            THEN [done |-> TRUE, token |-> token, scm |-> scm]
                            ELSE written
              /\ call' = [op |-> "WriteToken", scm |-> scm, token |-> token,
                          authorized |-> FALSE, err |-> r.err]
    /\ UNCHANGED <<walkVars, commentVars, fileVars, recordVars, selectVars>>

DoCheckForAccess ==
    /\ \E scm \in Platforms, env \in {"ok", "user", "open"} :
          \E r \in {CheckForAccess(configFile, scm, env)} :
              call' = [op |-> "CheckForAccess", scm |-> scm, token |-> <<>>,
                       authorized |-> r.authorized, err |-> r.err]
    /\ UNCHANGED <<configFile, written>>
    /\ UNCHANGED <<walkVars, commentVars, fileVars, recordVars, selectVars>>

DoReadAccessToken ==
    /\ \E scm \in Platforms, env \in {"ok", "user", "open"} :
          \E r \in {ReadAccessToken(configFile, scm, env)} :
              call' = [op |-> "ReadAccessToken", scm |-> scm,
                       token |-> r.token, authorized |-> FALSE,
                       err |-> r.err]
    /\ UNCHANGED <<configFile, written>>
    /\ UNCHANGED <<walkVars, commentVars, fileVars, recordVars, selectVars>>

\* before the first call there is no config.json, or one that some earlier
\* run wrote
InitToken ==
    /\ configFile \in {NoFile}
          \cup {[exists |-> TRUE, data |-> Marshal(GH, t)] : t \in Tokens}
    /\ written = [done |-> FALSE, token |-> <<>>, scm |-> <<>>]
    /\ call = NoTokenCall
    /\ WalkIdle
    /\ CommentIdle
    /\ FileIdle
    /\ RecordIdle
    /\ SelectIdle

NextToken ==
    \/ DoWriteToken
    \/ DoCheckForAccess
    \/ DoReadAccessToken

SpecToken == InitToken /\ [][NextToken]_vars

\* the errors of a read that come from the system, not from the file
ReadEnvErrs == {ErrUserCurrent, ErrOpeningFile}

\* C21: for every platform scm and every non-empty token, after
\* WriteToken(token, scm) succeeded ReadAccessToken(scm) returns that token
\* without error and CheckForAccess(scm) returns true; and CheckForAccess(scm)
\* returns true exactly when ReadAccessToken(scm) succeeds.
C21_TokenRoundTrip ==
    /\ (/\ written.done
        /\ written.token # <<>>
        /\ call.scm = written.scm
        /\ call.err \notin ReadEnvErrs) =>
           /\ call.op = "ReadAccessToken" =>
                 call.err = NoErr /\ call.token = written.token
           /\ call.op = "CheckForAccess" =>
                 call.err = NoErr /\ call.authorized
    /\ \A scm \in Platforms :
          CheckForAccess(configFile, scm, "ok").authorized
              = (ReadAccessToken(configFile, scm, "ok").err = NoErr)

====
